---- MODULE Spec2Model ----
(***************************************************************************)
(* Model of extract_vulkan_extensions.py (Fossilize): the type-dependency  *)
(* closure, the chain-extension classifier, the enum activation and the    *)
(* per-extension delta report of main(), phase by phase.                   *)
(*                                                                         *)
(* An XML element is modelled by its attribute dictionary (a function from *)
(* attribute names to strings) plus the children main() reads.  A Python   *)
(* set whose iteration order can influence the run (StructType.extends) is *)
(* a duplicate-free sequence: the iteration order of that set object,      *)
(* chosen nondeterministically when the set is built.                      *)
(***************************************************************************)
EXTENDS Integers, Sequences, FiniteSets, TLC

None == "None"

(* ----------------------------- bounds ---------------------------------- *)
MaxMembers == 2   \* longest member list of a freely chosen structure
MaxExtends == 2   \* most names in a freely chosen structextends attribute
MaxRefs    == 2   \* most references in a freely chosen requirement block
MaxEnables == 2   \* most <enable> children of a freely chosen SPIR-V extension

(* --------------------------- small helpers ----------------------------- *)
Range(s) == {s[i] : i \in 1..Len(s)}

SeqsUpTo(S, n) == UNION {[1..k -> S] : k \in 0..n}

\* iteration orders of a Python set: its duplicate-free enumerations
Orders(S) == {s \in [1..Cardinality(S) -> S] : Range(s) = S}

(* ------------------ namedtuples and the recursive helpers -------------- *)
StructType(extends, member_types) ==
    [extends |-> extends, member_types |-> member_types]

RECURSIVE traverse_active_struct_type(_, _, _)
RECURSIVE traverse_members(_, _, _, _)
RECURSIVE traverse_members_first_only(_, _, _, _)
RECURSIVE traverse_undeclared_too(_, _, _)
\* mutant: the name is added before it is looked up in the mapping
traverse_undeclared_too(active_types, t, mapping) ==
    IF t \in active_types THEN active_types
    ELSE IF t \notin DOMAIN mapping THEN active_types \cup {t}
    ELSE traverse_members(active_types \cup {t}, mapping[t].member_types, 1, mapping)

\* lines 12-19; returns the visited set after the call
traverse_active_struct_type(active_types, t, mapping) ==
    IF t \notin DOMAIN mapping THEN active_types
    ELSE IF t \in active_types THEN active_types
    ELSE traverse_members(active_types \cup {t}, mapping[t].member_types, 1, mapping)

\* mutant: the loop of lines 18-19 returns after the first member
traverse_members_first_only(active_types, ms, i, mapping) ==
    IF i > Len(ms) \/ i > 1 THEN active_types
    ELSE traverse_members_first_only(
             traverse_active_struct_type(active_types, ms[i], mapping), ms, i + 1, mapping)

\* the for loop of lines 18-19, from member index i on
traverse_members(active_types, ms, i, mapping) ==
    IF i > Len(ms) THEN active_types
    ELSE traverse_members(traverse_active_struct_type(active_types, ms[i], mapping),
                          ms, i + 1, mapping)

RECURSIVE traverse_roots(_, _, _)
\* the for loop of lines 23-24 over the not yet visited roots
traverse_roots(active_types, todo, mapping) ==
    IF todo = {} THEN active_types
    ELSE LET t == CHOOSE x \in todo : TRUE
         IN  traverse_roots(traverse_active_struct_type(active_types, t, mapping),
                            todo \ {t}, mapping)

\* lines 21-25
traverse_active_struct_types(base_types, mapping) ==
    traverse_roots({}, base_types, mapping)

RecursionError == "RecursionError"

RECURSIVE extends_any_from(_, _, _, _, _)
RECURSIVE extends_any_declared(_, _, _, _, _)
RECURSIVE extends_any_on(_, _, _, _)
\* lines 27-33 with the set of calls currently on the Python stack; the
\* result is "True", "False" or RecursionError.  The function is
\* deterministic in t (active_types, mappings and the iteration orders are
\* fixed), so a call for a t that is already on the stack repeats forever:
\* the interpreter's recursion limit ends it with RecursionError.
extends_any_on(active_types, t, mappings, stack) ==
    IF t \in stack THEN RecursionError
    ELSE IF t \notin DOMAIN mappings THEN "False"
    ELSE extends_any_from(active_types, mappings[t].extends, 1, mappings, stack \cup {t})

\* mutant: line 31 accepts any declared structure as a chain target
extends_any_declared(active_types, es, i, mappings, stack) ==
    IF i > Len(es) THEN "False"
    ELSE IF es[i] \in active_types \/ es[i] \in DOMAIN mappings THEN "True"
    ELSE extends_any_declared(active_types, es, i + 1, mappings, stack)

\* the for loop of lines 30-32, from index i of the iteration order on
extends_any_from(active_types, es, i, mappings, stack) ==
    IF i > Len(es) THEN "False"
    ELSE IF es[i] \in active_types THEN "True"
    ELSE LET r == extends_any_on(active_types, es[i], mappings, stack)
         IN  IF r = "False"
             THEN extends_any_from(active_types, es, i + 1, mappings, stack)
             ELSE r

struct_extends_any(active_types, t, mappings) ==
    extends_any_on(active_types, t, mappings, {})

\* lines 35-41: [error, value]; error is RecursionError when a
\* struct_extends_any call raises, and then there is no value
find_extending_structs(active_types, mappings) ==
    IF \E m \in DOMAIN mappings :
          struct_extends_any(active_types, m, mappings) = RecursionError
    THEN [error |-> RecursionError, value |-> {}]
    ELSE [error |-> None,
          value |-> UNION {traverse_active_struct_types({m}, mappings) :
                             m \in {k \in DOMAIN mappings :
                                      struct_extends_any(active_types, k, mappings) = "True"}}]

\* lines 48-51 / 55-58: what one member type contributes
member_enum(m, enum_types, bitmask_reqs) ==
    IF m \in DOMAIN bitmask_reqs THEN {bitmask_reqs[m]}
    ELSE IF m \in enum_types THEN {m}
    ELSE {}

\* lines 43-60
find_active_enum_types(active_types, extending_types, mappings, enum_types, bitmask_reqs) ==
    UNION {member_enum(m, enum_types, bitmask_reqs) :
             m \in UNION {Range(mappings[t].member_types) :
                            t \in active_types \cup extending_types}}

\* lines 78-82
top_level_types_pipeline ==
    {"VkGraphicsPipelineCreateInfo", "VkComputePipelineCreateInfo",
     "VkRayTracingPipelineCreateInfoKHR", "VkDeviceCreateInfo"}

\* lines 84-93
top_level_types ==
    {"VkGraphicsPipelineCreateInfo", "VkComputePipelineCreateInfo",
     "VkRayTracingPipelineCreateInfoKHR", "VkRenderPassCreateInfo",
     "VkRenderPassCreateInfo2", "VkDescriptorSetLayoutCreateInfo",
     "VkSamplerCreateInfo", "VkShaderModuleCreateInfo",
     "VkPipelineLayoutCreateInfo"}

\* type_aliases.get(x, x)
Resolve(type_aliases, x) ==
    IF x \in DOMAIN type_aliases THEN type_aliases[x] ELSE x

(* ----------------------- the parsed input documents -------------------- *)
\* an element's attribute dictionary is a function from attribute names
NoAttrib == <<>>
Has(attrib, k) == k \in DOMAIN attrib

\* <member values=...><type>type</type></member>
Member(type, values) ==
    [attrib |-> IF values = None THEN NoAttrib ELSE "values" :> values,
     type   |-> type]

\* <type category="struct" name=... structextends=...> with its members; the
\* structextends value is given as the set of the names between its commas
StructElem(name, structextends, members) ==
    [attrib  |-> IF structextends = {}
                 THEN ("category" :> "struct") @@ ("name" :> name)
                 ELSE ("category" :> "struct") @@ ("name" :> name)
                        @@ ("structextends" :> structextends),
     name    |-> None,
     members |-> members]

\* <type category="enum" name=.../>
EnumElem(name) ==
    [attrib |-> ("category" :> "enum") @@ ("name" :> name),
     name |-> None, members |-> <<>>]

\* <type category=... name=... alias=.../>; category None: no such attribute
AliasElem(category, name, alias) ==
    [attrib |-> IF category = None
                THEN ("name" :> name) @@ ("alias" :> alias)
                ELSE ("category" :> category) @@ ("name" :> name) @@ ("alias" :> alias),
     name |-> None, members |-> <<>>]

\* <type category="bitmask" requires=.../bitvalues=...><name>name</name></type>
BitmaskElem(name, key, enum) ==
    [attrib |-> IF key = None THEN "category" :> "bitmask"
                ELSE ("category" :> "bitmask") @@ (key :> enum),
     name |-> name, members |-> <<>>]

sType(tag) == Member("VkStructureType", tag)

\* the declared ones of the structures names[i], in this order
Declared(names, c) ==
    LET tagged == [i \in 1..Len(names) |->
                     [present |-> c[i].present,
                      elem    |-> StructElem(names[i], c[i].extends, c[i].members)]]
        sel    == SelectSeq(tagged, LAMBDA x : x.present)
    IN  [i \in 1..Len(sel) |-> sel[i].elem]

Absent == [present |-> FALSE, extends |-> {}, members |-> <<>>]

StructChoices(extendsSets, memberLists) ==
    {Absent} \cup {[present |-> TRUE, extends |-> e, members |-> m] :
                     e \in extendsSets, m \in memberLists}

Registry(types, extensions, spirvextensions, spirvcapabilities) ==
    [types |-> types, extensions |-> extensions,
     spirvextensions |-> spirvextensions, spirvcapabilities |-> spirvcapabilities]

Input(registry, completed) == [registry |-> registry, completed |-> completed]

NoLedger == <<>>

(* Inputs of the member closure: three structures, each declared or not;   *)
(* the first is a root; two have any member list over the three names and  *)
(* the third has at most one member.                                       *)
ClosureNames == <<"VkPipelineLayoutCreateInfo", "VkPushConstantRange", "VkExtent2D">>

ClosureMembers(n) ==
    {[k \in DOMAIN ms |-> Member(ms[k], None)] : ms \in SeqsUpTo(Range(ClosureNames), n)}

ClosureInputs ==
    {Input(Registry(Declared(ClosureNames, <<a, b, c>>), <<>>, <<>>, <<>>), NoLedger) :
       a \in StructChoices({{}}, ClosureMembers(MaxMembers)),
       b \in StructChoices({{}}, ClosureMembers(MaxMembers)),
       c \in StructChoices({{}}, ClosureMembers(1))}

SubsetsUpTo(S, n) == {T \in SUBSET S : Cardinality(T) <= n}

(* Inputs of the chain classifier and of the pNext table: a declared root, *)
(* an alias of an undeclared pipeline root, a plain structure, and two     *)
(* structures with any structextends over the four chain targets.          *)
ChainNames == <<"VkPipelineRenderingCreateInfo", "VkPipelineCreationFeedbackCreateInfo">>

ChainTargets ==
    {"VkGraphicsPipelineCreateInfo", "VkComputePipelineCreateInfoKHR"}
        \cup Range(ChainNames)

ChainFixedTypes ==
    << AliasElem("struct", "VkComputePipelineCreateInfoKHR", "VkComputePipelineCreateInfo"),
       StructElem("VkGraphicsPipelineCreateInfo", {},
                  <<sType("VK_STRUCTURE_TYPE_GRAPHICS_PIPELINE_CREATE_INFO")>>),
       StructElem("VkPipelineCreationFeedback", {}, <<>>) >>

ChainInputs ==
    {Input(Registry(ChainFixedTypes \o Declared(ChainNames, <<x, y>>), <<>>, <<>>, <<>>),
           NoLedger) :
       x \in StructChoices(SubsetsUpTo(ChainTargets, MaxExtends),
               { <<sType("VK_STRUCTURE_TYPE_PIPELINE_RENDERING_CREATE_INFO")>>,
                 <<sType("VK_STRUCTURE_TYPE_PIPELINE_RENDERING_CREATE_INFO"),
                   Member("VkPipelineCreationFeedback", None)>>,
                 <<sType(None)>> }),
       y \in StructChoices(SubsetsUpTo(ChainTargets, MaxExtends),
               { <<sType("VK_STRUCTURE_TYPE_PIPELINE_CREATION_FEEDBACK_CREATE_INFO")>>,
                 <<>> })}

(* Inputs of the enum activation: a root and a structure chained onto it,  *)
(* the enumerations and one bitmask declared or not, any requirement.      *)
EnumMemberTypes == {"VkFormat", "VkFilter", "VkSamplerCreateFlags", "VkFormatKHR"}

EnumInputs ==
    {Input(Registry(
        (IF al THEN <<AliasElem("enum", "VkFormatKHR", "VkFormat")>> ELSE <<>>)
        \o << EnumElem("VkStructureType"), EnumElem("VkObjectType") >>
        \o (IF fmt THEN <<EnumElem("VkFormat")>> ELSE <<>>)
        \o (IF flt THEN <<EnumElem("VkFilter")>> ELSE <<>>)
        \o (IF bm.key = None /\ bm.enum # None THEN <<>>
            ELSE <<BitmaskElem("VkSamplerCreateFlags", bm.key, bm.enum)>>)
        \o << StructElem("VkSamplerCreateInfo", {},
                         [k \in DOMAIN ms |-> Member(ms[k], None)]),
              StructElem("VkSamplerReductionModeCreateInfo", {"VkSamplerCreateInfo"},
                         <<sType("VK_STRUCTURE_TYPE_SAMPLER_REDUCTION_MODE_CREATE_INFO"),
                           Member("VkObjectType", None)>>) >>,
        <<>>, <<>>, <<>>), NoLedger) :
       al \in BOOLEAN, fmt \in BOOLEAN, flt \in BOOLEAN,
       bm \in [key : {None, "requires", "bitvalues"},
               enum : {None, "VkSamplerCreateFlagBits", "VkFormat", "VkObjectType"}]
              \ [key : {"requires", "bitvalues"}, enum : {None}],
       ms \in SeqsUpTo(EnumMemberTypes, MaxMembers)}

(* Inputs of the delta report: fixed structures and enumeration, any subset *)
(* of two alias declarations, a ledger that names at most one cherry-pick, *)
(* and one extension with any requirement block next to a fixed second     *)
(* extension.                                                              *)
DeltaAliases ==
    { AliasElem("enum", "VkFilterEXT", "VkFilter"),
      AliasElem(None, "VK_FILTER_CUBIC_IMG", "VK_FILTER_CUBIC_EXT") }

DeltaFixedTypes ==
    << StructElem("VkSamplerCreateInfo", {},
                  <<sType("VK_STRUCTURE_TYPE_SAMPLER_CREATE_INFO"), Member("VkFilter", None)>>),
       EnumElem("VkFilter"),
       StructElem("VkPhysicalDeviceCubicWeightsFeatures", {"VkPhysicalDeviceFeatures2"},
                  <<sType("VK_STRUCTURE_TYPE_PHYSICAL_DEVICE_CUBIC_WEIGHTS_FEATURES")>>),
       StructElem("VkSamplerCubicWeightsCreateInfo", {"VkSamplerCreateInfo"},
                  <<sType("VK_STRUCTURE_TYPE_SAMPLER_CUBIC_WEIGHTS_CREATE_INFO")>>) >>

DeltaTypeRefs == {"VkFilter", "VkFilterEXT"}

DeltaEnumRefs ==
    {"name" :> "VK_FILTER_CUBIC_EXT"}
    \cup {("name" :> n) @@ ("extends" :> "VkFilter") :
            n \in {"VK_FILTER_CUBIC_IMG", "VK_FILTER_CUBIC_EXT"}}

DeltaBlocks ==
    {[types |-> ts, enums |-> es] :
       ts \in SeqsUpTo(DeltaTypeRefs, MaxRefs), es \in SeqsUpTo(DeltaEnumRefs, MaxRefs)}

Extension(name, supported, requires) ==
    [attrib |-> ("name" :> name) @@ ("supported" :> supported), requires |-> requires]

DeltaFixedExtension ==
    Extension("VK_QCOM_filter_cubic_weights", <<"vulkan", "vulkansc">>,
              << [types |-> <<"VkSamplerCubicWeightsCreateInfo",
                              "VkPhysicalDeviceCubicWeightsFeatures">>,
                  enums |-> <<>>],
                 [types |-> <<>>,
                  enums |-> <<("name" :> "VK_FILTER_CUBIC_EXT") @@ ("extends" :> "VkFilter")>>] >>)

\* a ledger document holds only the keys whose list is given
Ledger(key, names) == IF names = {} THEN <<>> ELSE key :> names

DeltaStatus ==
    { [supported |-> <<"vulkan">>,   ledger |-> <<>>],
      [supported |-> <<"vulkan">>,   ledger |-> "extensions" :> {"VK_EXT_filter_cubic"}],
      [supported |-> <<"vulkan">>,   ledger |-> "fully-ignored" :> {"VK_EXT_filter_cubic"}],
      [supported |-> <<"disabled">>, ledger |-> <<>>] }

DeltaCherryPicks ==
    SubsetsUpTo({"VkSamplerCubicWeightsCreateInfo", "VkFilter", "VK_FILTER_CUBIC_EXT"}, 1)

RECURSIVE SetToSeq(_)
SetToSeq(S) ==
    IF S = {} THEN <<>>
    ELSE LET x == CHOOSE y \in S : TRUE IN <<x>> \o SetToSeq(S \ {x})

DeltaInputs ==
    {Input(Registry(SetToSeq(al) \o DeltaFixedTypes,
                    << Extension("VK_EXT_filter_cubic", st.supported, <<b>>),
                       DeltaFixedExtension >>,
                    <<>>, <<>>),
           st.ledger @@ Ledger("cherry-pick", ch)) :
       al \in SUBSET DeltaAliases, st \in DeltaStatus, ch \in DeltaCherryPicks,
       b \in {x \in DeltaBlocks : Len(x.types) + Len(x.enums) <= MaxRefs}}

(* Inputs of the SPIR-V tables: one or two SPIR-V extensions with any      *)
(* enable conditions, and the capabilities.                                *)
SpirvEnables ==
    { "version" :> <<"VK", "_VERSION_1_1">>,
      "extension" :> "VK_KHR_shader_draw_parameters",
      ("version" :> <<"VK", "_VERSION_1_2">>) @@ ("extension" :> "VK_KHR_8bit_storage") }

SpirvExtensionElem(name, enables) == [attrib |-> "name" :> name, enables |-> enables]

SpirvExtensionLists ==
    { <<SpirvExtensionElem("SPV_KHR_shader_draw_parameters", a)>> :
        a \in SeqsUpTo(SpirvEnables, MaxEnables) }
    \cup { << SpirvExtensionElem("SPV_KHR_shader_draw_parameters", a),
              SpirvExtensionElem("SPV_KHR_8bit_storage", b) >> :
             a \in SeqsUpTo(SpirvEnables, MaxEnables),
             b \in SeqsUpTo(SpirvEnables, MaxEnables) }

StorageCapability ==
    [attrib |-> "name" :> "StorageBuffer16BitAccess",
     enables |-> << "version" :> <<"VK", "_VERSION_1_1">>,
                    ("struct" :> "VkPhysicalDeviceVulkan11Features")
                      @@ ("feature" :> "storageBuffer16BitAccess")
                      @@ ("requires" :> <<"VK_VERSION_1_2">>) >>]

GroupCapability ==
    [attrib |-> "name" :> "GroupNonUniformVote",
     enables |-> << ("property" :> "VkPhysicalDeviceVulkan11Properties")
                      @@ ("member" :> "subgroupSupportedOperations")
                      @@ ("value" :> "VK_SUBGROUP_FEATURE_VOTE_BIT"),
                    "extension" :> "VK_EXT_shader_subgroup_vote" >>]

MalformedCapability ==
    [attrib |-> "name" :> "Int8",
     enables |-> << "feature" :> "shaderInt8" >>]

SpirvCapabilityLists ==
    { <<>>, <<StorageCapability, GroupCapability>>,
      <<StorageCapability, MalformedCapability>> }

SpirvInputs ==
    {Input(Registry(<<StructElem("VkShaderModuleCreateInfo", {},
                                 <<sType("VK_STRUCTURE_TYPE_SHADER_MODULE_CREATE_INFO")>>)>>,
                    <<>>, se, sc),
           Ledger("spirvcapabilities", done)) :
       se \in SpirvExtensionLists, sc \in SpirvCapabilityLists,
       done \in {{}, {"StorageBuffer16BitAccess"}}}

Inputs == ClosureInputs \cup ChainInputs \cup EnumInputs \cup DeltaInputs \cup SpirvInputs

(* ------------------------------ main() --------------------------------- *)
VARIABLES
    root,                        \* the registry document (line 76)
    completed,                   \* the ledger document (line 146)
    pc,                          \* the phase of main() that runs next
    i,                           \* index of the next element of the running loop
    error,                       \* the uncaught exception that ended the run
    type_aliases,                \* line 98
    struct_types,                \* line 95
    enum_types,                  \* line 96 (the keys; the values are never read)
    bitmask_requirements,        \* line 97
    shallow_copy_pnext_size_lut, \* line 104, one <<stype, name>> per row
    active_types,                \* line 142
    extending_types,             \* line 143
    active_enums,                \* line 159
    out                          \* what has been printed to stdout

vars == <<root, completed, pc, i, error, type_aliases, struct_types, enum_types,
          bitmask_requirements, shallow_copy_pnext_size_lut, active_types,
          extending_types, active_enums, out>>

Init ==
    /\ \E inp \in Inputs : root = inp.registry /\ completed = inp.completed
    /\ pc = "aliases"
    /\ i = 1
    /\ error = None
    /\ type_aliases = <<>>
    /\ struct_types = <<>>
    /\ enum_types = {}
    /\ bitmask_requirements = <<>>
    /\ shallow_copy_pnext_size_lut = <<>>
    /\ active_types = {}
    /\ extending_types = {}
    /\ active_enums = {}
    /\ out = <<>>

\* the run ends with an uncaught exception
Raise(e) == pc' = "crashed" /\ error' = e

\* lines 100-102
ParseAliases ==
    /\ pc = "aliases"
    /\ LET aliased == {k \in 1..Len(root.types) : Has(root.types[k].attrib, "alias")}
           last(n)  == CHOOSE k \in aliased :
                         /\ root.types[k].attrib["name"] = n
                         /\ \A l \in aliased :
                               root.types[l].attrib["name"] = n => l <= k
       IN  type_aliases' = [n \in {root.types[k].attrib["name"] : k \in aliased} |->
                              root.types[last(n)].attrib["alias"]]
    /\ pc' = "types"
    /\ i' = 1
    /\ UNCHANGED <<root, completed, error, struct_types, enum_types,
                   bitmask_requirements, shallow_copy_pnext_size_lut, active_types,
                   extending_types, active_enums, out>>

\* lines 116-117
ResolvedExtends(t) ==
    IF Has(t.attrib, "structextends")
    THEN {Resolve(type_aliases, x) : x \in t.attrib["structextends"]}
    ELSE {}

\* lines 119-123: does the structure get a row
HasPipelineRoot(extends) == extends \cap top_level_types_pipeline # {}

\* lines 125-128
MemberTypes(t) ==
    [k \in 1..Len(t.members) |-> Resolve(type_aliases, t.members[k].type)]

\* mutant: no break at line 123, one row per pipeline root in the set
PnextRowsPerRoot(t, extends) ==
    [k \in 1..Cardinality(extends \cap top_level_types_pipeline) |->
        <<t.members[1].attrib["values"], t.attrib["name"]>>]

\* lines 119-123: the rows the structure adds to the table; the break after
\* the first pipeline root leaves one row
PnextRows(t, extends) ==
    IF HasPipelineRoot(extends)
    THEN << <<t.members[1].attrib["values"], t.attrib["name"]>> >>
    ELSE <<>>

\* lines 110-129, one structure
ParseStruct(t) ==
    LET name    == t.attrib["name"]
        extends == ResolvedExtends(t)
    IN  IF HasPipelineRoot(extends) /\ t.members = <<>>
        THEN /\ Raise("AttributeError")
             /\ UNCHANGED <<i, struct_types, shallow_copy_pnext_size_lut>>
        ELSE IF HasPipelineRoot(extends) /\ ~Has(t.members[1].attrib, "values")
        THEN /\ Raise("KeyError")
             /\ UNCHANGED <<i, struct_types, shallow_copy_pnext_size_lut>>
        ELSE /\ shallow_copy_pnext_size_lut' =
                   shallow_copy_pnext_size_lut \o PnextRows(t, extends)
             /\ \E order \in Orders(extends) :
                   struct_types' =
                       (name :> StructType(order, MemberTypes(t))) @@ struct_types
             /\ i' = i + 1
             /\ UNCHANGED <<pc, error>>

\* lines 130-134
ExcludedEnums == {"VkStructureType", "VkFormat", "VkObjectType"}

\* lines 106-140, one iteration
ParseType ==
    /\ pc = "types"
    /\ i <= Len(root.types)
    /\ LET t == root.types[i]
           category == IF Has(t.attrib, "category") THEN t.attrib["category"] ELSE None
       IN  IF category = "struct"
           THEN /\ ParseStruct(t)
                /\ UNCHANGED <<enum_types, bitmask_requirements>>
           ELSE IF category = "enum"
           THEN /\ LET name == Resolve(type_aliases, t.attrib["name"])
                   IN  enum_types' = IF name \notin ExcludedEnums
                                     THEN enum_types \cup {name}
                                     ELSE enum_types
                /\ i' = i + 1
                /\ UNCHANGED <<pc, error, struct_types, bitmask_requirements,
                               shallow_copy_pnext_size_lut>>
           ELSE IF category = "bitmask"
                   /\ (Has(t.attrib, "requires") \/ Has(t.attrib, "bitvalues"))
           THEN /\ LET req == IF Has(t.attrib, "requires")
                              THEN t.attrib["requires"]
                              ELSE t.attrib["bitvalues"]
                   IN  IF t.name = None
                       THEN /\ Raise("AttributeError")
                            /\ UNCHANGED <<i, bitmask_requirements>>
                       ELSE /\ bitmask_requirements' =
                                  (t.name :> req) @@ bitmask_requirements
                            /\ i' = i + 1
                            /\ UNCHANGED <<pc, error>>
                /\ UNCHANGED <<struct_types, enum_types, shallow_copy_pnext_size_lut>>
           ELSE /\ i' = i + 1
                /\ UNCHANGED <<pc, error, struct_types, enum_types,
                               bitmask_requirements, shallow_copy_pnext_size_lut>>
    /\ UNCHANGED <<root, completed, type_aliases, active_types, extending_types,
                   active_enums, out>>

\* lines 142-143
ComputeClosure ==
    /\ pc = "types"
    /\ i > Len(root.types)
    /\ LET active    == traverse_active_struct_types(top_level_types, struct_types)
           extending == find_extending_structs(active, struct_types)
       IN  /\ active_types' = active
           /\ IF extending.error # None
              THEN /\ Raise(extending.error)
                   /\ UNCHANGED extending_types
              ELSE /\ extending_types' = extending.value
                   /\ pc' = "print"
                   /\ UNCHANGED error
    /\ UNCHANGED <<root, completed, i, type_aliases, struct_types, enum_types,
                   bitmask_requirements, shallow_copy_pnext_size_lut, active_enums, out>>

\* completed[key] as a set, empty when the key is absent (lines 163-166)
LedgerSet(key) == IF Has(completed, key) THEN completed[key] ELSE {}

completed_extensions          == LedgerSet("extensions")
ignored_extensions            == LedgerSet("fully-ignored")
cherry_picked                 == LedgerSet("cherry-pick")
completed_spirv_capabilities  == LedgerSet("spirvcapabilities")

Section(name, lines) == [section |-> name, lines |-> lines]

\* lines 145-161; a set that is printed in its iteration order is recorded
\* as the set of its lines
PrintTypes ==
    /\ pc = "print"
    /\ active_enums' = find_active_enum_types(active_types, extending_types,
                            struct_types, enum_types, bitmask_requirements)
    /\ out' = out \o << Section("pNext LUT", shallow_copy_pnext_size_lut),
                         Section("Base Types", active_types),
                         Section("Extending Types", extending_types),
                         Section("Active Enums", active_enums') >>
    /\ pc' = "completed"
    /\ UNCHANGED <<root, completed, i, error, type_aliases, struct_types, enum_types,
                   bitmask_requirements, shallow_copy_pnext_size_lut, active_types,
                   extending_types>>

\* lines 170 / 179; the attribute value is given as the tokens between its commas
SupportsVulkan(ext) == "vulkan" \in Range(ext.attrib["supported"])

\* lines 172-175, the status line of one extension (none: the empty sequence)
StatusLine(ext) ==
    LET ext_name == ext.attrib["name"]
    IN  IF ~SupportsVulkan(ext) THEN <<>>
        ELSE IF ext_name \in completed_extensions THEN << <<ext_name, "Completed">> >>
        ELSE IF ext_name \in ignored_extensions THEN << <<ext_name, "Ignored">> >>
        ELSE <<>>

RECURSIVE StatusLines(_, _)
StatusLines(exts, k) ==
    IF k > Len(exts) THEN <<>> ELSE StatusLine(exts[k]) \o StatusLines(exts, k + 1)

\* lines 163-177
PrintCompleted ==
    /\ pc = "completed"
    /\ out' = out \o << Section("Completed extensions", StatusLines(root.extensions, 1)),
                         Section("Additions", <<>>) >>
    /\ pc' = "additions"
    /\ i' = 1
    /\ UNCHANGED <<root, completed, error, type_aliases, struct_types, enum_types,
                   bitmask_requirements, shallow_copy_pnext_size_lut, active_types,
                   extending_types, active_enums>>

RECURSIVE Refs(_, _, _)
\* the elements that the nested loops of lines 189-190 / 207 visit, in order:
\* kind "types" or "enums" of the requirement blocks from index k on
Refs(requires, kind, k) ==
    IF k > Len(requires) THEN <<>>
    ELSE requires[k][kind] \o Refs(requires, kind, k + 1)

\* lines 191-198: the list a <type> reference is appended to
TypeRefList(raw_name) ==
    LET type_name == Resolve(type_aliases, raw_name)
    IN  IF type_name \in active_types \/ type_name \in extending_types
        THEN IF type_name \notin cherry_picked THEN "new_structs" ELSE None
        ELSE IF type_name \in active_enums
        THEN IF type_name \notin cherry_picked THEN "new_enums" ELSE None
        ELSE None

\* lines 200-205
ExtendsAggregator(raw_name, aggregator) ==
    LET type_name == Resolve(type_aliases, raw_name)
    IN  /\ type_name \in DOMAIN struct_types
        /\ aggregator \in Range(struct_types[type_name].extends)

\* lines 208-212: is the <enum> reference recorded, and as which pair
EnumRefRecorded(e) ==
    /\ e["name"] \notin cherry_picked
    /\ Has(e, "extends")
    /\ e["extends"] \in active_enums

EnumRefPair(e) == <<e["extends"], Resolve(type_aliases, e["name"])>>

ResolveAll(names) == [k \in 1..Len(names) |-> Resolve(type_aliases, names[k])]

\* the five lists of lines 183-212 for one extension
ExtensionLists(ext) ==
    LET types == Refs(ext.requires, "types", 1)
        enums == Refs(ext.requires, "enums", 1)
        recorded == SelectSeq(enums, EnumRefRecorded)
    IN  [new_structs |->
            ResolveAll(SelectSeq(types, LAMBDA n : TypeRefList(n) = "new_structs")),
         new_enums |->
            ResolveAll(SelectSeq(types, LAMBDA n : TypeRefList(n) = "new_enums")),
         extended_enums |-> [k \in 1..Len(recorded) |-> EnumRefPair(recorded[k])],
         feature_structs |->
            ResolveAll(SelectSeq(types,
                LAMBDA n : ExtendsAggregator(n, "VkPhysicalDeviceFeatures2"))),
         property_structs |->
            ResolveAll(SelectSeq(types,
                LAMBDA n : ExtendsAggregator(n, "VkPhysicalDeviceProperties2")))]

\* mutant: line 181 tests completed_extensions only
SkippedWhenCompleted(ext) ==
    ext.attrib["name"] \in completed_extensions

\* lines 181-182
Skipped(ext) ==
    \/ ext.attrib["name"] \in completed_extensions
    \/ ext.attrib["name"] \in ignored_extensions

\* lines 214-224: what the extension prints (nothing: the empty sequence)
ExtensionSection(ext) ==
    LET l == ExtensionLists(ext)
    IN  IF Len(l.new_structs) + Len(l.new_enums) + Len(l.extended_enums) > 0
        THEN << [section          |-> "Addition",
                 ext_name         |-> ext.attrib["name"],
                 new_structs      |-> [k \in 1..Len(l.new_structs) |->
                                         <<l.new_structs[k],
                                           struct_types[l.new_structs[k]].extends>>],
                 new_enums        |-> l.new_enums,
                 extended_enums   |-> l.extended_enums,
                 feature_structs  |-> l.feature_structs,
                 property_structs |-> l.property_structs] >>
        ELSE <<>>

\* lines 178-224, one iteration
AdditionsExtension ==
    /\ pc = "additions"
    /\ i <= Len(root.extensions)
    /\ LET ext == root.extensions[i]
       IN  out' = IF SupportsVulkan(ext) /\ ~Skipped(ext)
                  THEN out \o ExtensionSection(ext)
                  ELSE out
    /\ i' = i + 1
    /\ UNCHANGED <<root, completed, pc, error, type_aliases, struct_types, enum_types,
                   bitmask_requirements, shallow_copy_pnext_size_lut, active_types,
                   extending_types, active_enums>>

\* line 226, after the last extension
PrintSpirvHeader ==
    /\ pc = "additions"
    /\ i > Len(root.extensions)
    /\ out' = Append(out, Section("SPIR-V extensions table", <<>>))
    /\ pc' = "spirv"
    /\ i' = 1
    /\ UNCHANGED <<root, completed, error, type_aliases, struct_types, enum_types,
                   bitmask_requirements, shallow_copy_pnext_size_lut, active_types,
                   extending_types, active_enums>>

RECURSIVE ScanEnables(_, _, _, _)
RECURSIVE ScanEnablesLastWins(_, _, _, _)
\* mutant: no check at line 234, the last extension condition wins
ScanEnablesLastWins(enables, k, core_version, vkext) ==
    IF k > Len(enables)
    THEN [core_version |-> core_version, vkext |-> vkext, error |-> None]
    ELSE ScanEnablesLastWins(enables, k + 1,
             IF Has(enables[k], "version") THEN enables[k]["version"] ELSE core_version,
             IF Has(enables[k], "extension") THEN enables[k]["extension"] ELSE vkext)

\* lines 230-236 from enable k on: [core_version, vkext, error]
ScanEnables(enables, k, core_version, vkext) ==
    IF k > Len(enables)
    THEN [core_version |-> core_version, vkext |-> vkext, error |-> None]
    ELSE LET en == enables[k]
             cv == IF Has(en, "version") THEN en["version"] ELSE core_version
         IN  IF Has(en, "extension")
             THEN IF vkext # None
                  \* raise of a str: TypeError, exceptions must derive from BaseException
                  THEN [core_version |-> cv, vkext |-> vkext, error |-> "TypeError"]
                  ELSE ScanEnables(enables, k + 1, cv, en["extension"])
             ELSE ScanEnables(enables, k + 1, cv, vkext)

\* line 237; a version string is given as <<its first two characters, the rest>>
\* so that core_version[2:] is its second component
ApiVersion(core_version) ==
    IF core_version # None THEN <<"VK_API", core_version[2]>> ELSE <<"0">>

\* lines 227-237, one iteration
SpirvExtension ==
    /\ pc = "spirv"
    /\ i <= Len(root.spirvextensions)
    /\ LET ext == root.spirvextensions[i]
           r   == ScanEnables(ext.enables, 1, None, None)
       IN  IF r.error # None
           THEN /\ Raise(r.error)
                /\ UNCHANGED <<i, out>>
           ELSE /\ out' = Append(out, [section |-> "SPIR-V row",
                                        name    |-> ext.attrib["name"],
                                        vkext   |-> r.vkext,
                                        version |-> ApiVersion(r.core_version)])
                /\ i' = i + 1
                /\ UNCHANGED <<pc, error>>
    /\ UNCHANGED <<root, completed, type_aliases, struct_types, enum_types,
                   bitmask_requirements, shallow_copy_pnext_size_lut, active_types,
                   extending_types, active_enums>>

RECURSIVE CompletedCapabilityLines(_, _)
\* lines 240-242
CompletedCapabilityLines(caps, k) ==
    IF k > Len(caps) THEN <<>>
    ELSE (IF caps[k].attrib["name"] \in completed_spirv_capabilities
          THEN << <<caps[k].attrib["name"], "Complete">> >> ELSE <<>>)
         \o CompletedCapabilityLines(caps, k + 1)

\* lines 239-244, after the last SPIR-V extension
PrintCompletedCapabilities ==
    /\ pc = "spirv"
    /\ i > Len(root.spirvextensions)
    /\ out' = out \o << Section("Completed SPIR-V capabilities",
                                 CompletedCapabilityLines(root.spirvcapabilities, 1)),
                         Section("Missing SPIR-V capabilities", <<>>) >>
    /\ pc' = "capabilities"
    /\ i' = 1
    /\ UNCHANGED <<root, completed, error, type_aliases, struct_types, enum_types,
                   bitmask_requirements, shallow_copy_pnext_size_lut, active_types,
                   extending_types, active_enums>>

\* one print of lines 251-263: skipped when its condition is false, KeyError
\* when an attribute it reads is missing
Emit(acc, cond, needed, en, line) ==
    IF acc.error # None \/ ~cond THEN acc
    ELSE IF ~(needed \subseteq DOMAIN en) THEN [lines |-> acc.lines, error |-> "KeyError"]
    ELSE [lines |-> Append(acc.lines, line), error |-> None]

\* lines 251-263 for one enable condition
EnableLines(acc, en) ==
    LET a1 == Emit(acc, Has(en, "version"), {}, en, <<"Core version", en["version"]>>)
        a2 == Emit(a1, Has(en, "feature"), {"struct"}, en,
                   <<"Vulkan feature", en["struct"], en["feature"]>>)
        a3 == Emit(a2, Has(en, "feature") /\ Has(en, "requires"), {}, en,
                   <<"from", en["requires"]>>)
        a4 == Emit(a3, Has(en, "property"), {"member", "value"}, en,
                   <<"Vulkan property", en["property"], en["member"], en["value"]>>)
        a5 == Emit(a4, Has(en, "property") /\ Has(en, "requires"), {}, en,
                   <<"from", en["requires"]>>)
    IN  Emit(a5, Has(en, "extension"), {}, en, <<"Vulkan extension", en["extension"]>>)

RECURSIVE CapabilityLines(_, _, _)
CapabilityLines(acc, enables, k) ==
    IF k > Len(enables) THEN acc
    ELSE CapabilityLines(EnableLines(acc, enables[k]), enables, k + 1)

\* lines 245-263, one iteration
MissingCapability ==
    /\ pc = "capabilities"
    /\ i <= Len(root.spirvcapabilities)
    /\ LET cap == root.spirvcapabilities[i]
           r   == CapabilityLines([lines |-> <<>>, error |-> None], cap.enables, 1)
       IN  IF cap.attrib["name"] \in completed_spirv_capabilities
           THEN /\ i' = i + 1
                /\ UNCHANGED <<pc, error, out>>
           ELSE /\ out' = Append(out, [section |-> "Missing SPIR-V capability",
                                        name    |-> cap.attrib["name"],
                                        lines   |-> r.lines])
                /\ IF r.error # None
                   THEN Raise(r.error) /\ UNCHANGED i
                   ELSE i' = i + 1 /\ UNCHANGED <<pc, error>>
    /\ UNCHANGED <<root, completed, type_aliases, struct_types, enum_types,
                   bitmask_requirements, shallow_copy_pnext_size_lut, active_types,
                   extending_types, active_enums>>

\* main() returns
Finish ==
    /\ pc = "capabilities"
    /\ i > Len(root.spirvcapabilities)
    /\ pc' = "done"
    /\ UNCHANGED <<root, completed, i, error, type_aliases, struct_types, enum_types,
                   bitmask_requirements, shallow_copy_pnext_size_lut, active_types,
                   extending_types, active_enums, out>>

Next ==
    \/ ParseAliases
    \/ ParseType
    \/ ComputeClosure
    \/ PrintTypes
    \/ PrintCompleted
    \/ AdditionsExtension
    \/ PrintSpirvHeader
    \/ SpirvExtension
    \/ PrintCompletedCapabilities
    \/ MissingCapability
    \/ Finish

Spec == Init /\ [][Next]_vars

(* ============================ properties =============================== *)
\* the closure and the chain classifier have run and returned
ClosureDone == pc \in {"print", "completed", "additions", "spirv", "capabilities", "done"}

Known == DOMAIN struct_types

\* S is closed under: a member type of a known s in S that is itself a
\* known structure is in S
MemberClosed(S) ==
    \A s \in S \cap Known :
        \A m \in Range(struct_types[s].member_types) : m \in Known => m \in S

\* the smallest member-closed set that contains X: the intersection of the
\* member-closed sets between X and X \cup Known
LeastClosed(X) ==
    LET closed == {S \in {X \cup T : T \in SUBSET (Known \ X)} : MemberClosed(S)}
    IN  {n \in X \cup Known : \A S \in closed : n \in S}

\* C1 as stated: ActiveTypes is the smallest set that contains the root set
\* and is closed under the known-structure members of its elements.
C1_LeastClosedOverRoots ==
    ClosureDone => active_types = LeastClosed(top_level_types)

\* C1 amended: ActiveTypes is the smallest member-closed set that contains
\* the roots that are declared structures; the same holds of the traversal
\* started from any single name.
C1_LeastClosedOverDeclaredRoots ==
    ClosureDone =>
        /\ active_types = LeastClosed(top_level_types \cap Known)
        /\ \A m \in Known \cup top_level_types :
              traverse_active_struct_types({m}, struct_types) = LeastClosed({m} \cap Known)

\* a member cycle through the root, and a declared structure left outside
C1_Witness ==
    /\ pc = "print"
    /\ "VkPushConstantRange" \in active_types
    /\ "VkPipelineLayoutCreateInfo" \in
           Range(struct_types["VkPushConstantRange"].member_types)
    /\ "VkExtent2D" \in Known \ active_types

RECURSIVE ChainedWithin(_, _)
\* the structures with an EXTENDS chain of at most k further links from S
\* into ActiveTypes
ChainedWithin(S, k) ==
    IF k = 0 THEN S
    ELSE ChainedWithin(S \cup {x \in Known : Range(struct_types[x].extends) \cap S # {}},
                       k - 1)

\* the structures whose EXTENDS chain terminates inside ActiveTypes
Chained ==
    ChainedWithin({x \in Known : Range(struct_types[x].extends) \cap active_types # {}},
                  Cardinality(Known))

\* C4 as stated: every structure in ExtendingTypes has an EXTENDS chain that
\* terminates inside ActiveTypes.
C4_EveryExtendingTypeChained ==
    extending_types \subseteq Chained

\* C4 amended: every structure in ExtendingTypes lies in the member closure
\* of a structure whose EXTENDS chain terminates inside ActiveTypes.
C4_ExtendingTypesFromChained ==
    extending_types \subseteq UNION {LeastClosed({x}) : x \in Chained}

\* a structure chained through another one, and a member without EXTENDS
C4_Witness ==
    /\ pc = "print"
    /\ "VkPipelineCreationFeedbackCreateInfo" \in extending_types
    /\ struct_types["VkPipelineCreationFeedbackCreateInfo"].extends
          = <<"VkPipelineRenderingCreateInfo">>
    /\ "VkPipelineCreationFeedback" \in extending_types
    /\ struct_types["VkPipelineCreationFeedback"].extends = <<>>

\* C5: the EXTENDS traversal terminates and returns a result for every
\* structure table, cyclic ones included.
C5_ExtendsTraversalReturns ==
    error # RecursionError

\* the per-extension sections printed so far
Additions == {out[k] : k \in {j \in DOMAIN out : out[j].section = "Addition"}}

\* C10: every name in ActiveTypes and in ExtendingTypes, and every recorded
\* new-struct, is a key of the structure table.
C10_ActiveAndExtendingDeclared ==
    /\ active_types \subseteq Known
    /\ extending_types \subseteq Known
    /\ \A a \in Additions :
          \A k \in DOMAIN a.new_structs : a.new_structs[k][1] \in Known

\* undeclared roots and a member type that is no structure next to declared
\* active and extending structures, one of them printed as a new struct
C10_Witness ==
    /\ pc = "done"
    /\ top_level_types \ Known # {}
    /\ \E t \in active_types : Range(struct_types[t].member_types) \ Known # {}
    /\ extending_types # {}
    /\ \E a \in Additions : a.new_structs # <<>>

\* the per-extension fields of an <enum> reference, as C6 compares them
EnumRefClass(e) ==
    [recorded |-> EnumRefRecorded(e),
     pair     |-> IF EnumRefRecorded(e) THEN EnumRefPair(e) ELSE <<>>]

\* the lists and flags a <type> reference lands in
TypeRefClass(n) ==
    [list     |-> TypeRefList(n),
     name     |-> IF TypeRefList(n) = None THEN None ELSE Resolve(type_aliases, n),
     feature  |-> ExtendsAggregator(n, "VkPhysicalDeviceFeatures2"),
     property |-> ExtendsAggregator(n, "VkPhysicalDeviceProperties2")]

\* C2: no cherry-picked name is printed as a new struct, as a new enum or
\* as the value name of an enum-extension pair.
C2_CherryPickedNeverListed ==
    \A a \in Additions :
        /\ \A k \in DOMAIN a.new_structs : a.new_structs[k][1] \notin cherry_picked
        /\ \A k \in DOMAIN a.new_enums : a.new_enums[k] \notin cherry_picked
        /\ \A k \in DOMAIN a.extended_enums : a.extended_enums[k][2] \notin cherry_picked

SectionNames(o) == [k \in DOMAIN o |-> o[k].section]

IsRow(x) == x.section = "SPIR-V row"
IsHeader(x) == x.section \notin {"Addition", "SPIR-V row"}

TwoExtensionConditions(ext) ==
    Cardinality({k \in DOMAIN ext.enables : Has(ext.enables[k], "extension")}) >= 2

Aborted == pc = "crashed" /\ error = "TypeError"

\* C3 as stated: at the abort for a SPIR-V extension with two enabling
\* Vulkan-extension conditions no report section has been printed.
C3_AbortBeforeAnyOutput ==
    Aborted => out = <<>>

\* C3 amended: the run aborts when the SPIR-V table reaches such an
\* extension; by then the sections pNext LUT to Additions, the SPIR-V table
\* header and the rows of the SPIR-V extensions before it are printed, and
\* neither its row nor a later row nor a capability section ever is.
C3_AbortAtOffendingSpirvExtension ==
    /\ Aborted =>
          /\ TwoExtensionConditions(root.spirvextensions[i])
          /\ SectionNames(SelectSeq(out, IsHeader)) =
                <<"pNext LUT", "Base Types", "Extending Types", "Active Enums",
                  "Completed extensions", "Additions", "SPIR-V extensions table">>
          /\ LET rows == SelectSeq(out, IsRow)
             IN  /\ Len(rows) = i - 1
                 /\ \A k \in 1..(i - 1) :
                       rows[k].name = root.spirvextensions[k].attrib["name"]
    /\ \A k \in DOMAIN root.spirvextensions :
          TwoExtensionConditions(root.spirvextensions[k]) =>
              /\ pc \notin {"capabilities", "done"}
              /\ Len(SelectSeq(out, IsRow)) < k

\* the second SPIR-V extension aborts the run after the row of the first
C3_Witness ==
    /\ Aborted
    /\ i = 2
    /\ Len(SelectSeq(out, IsRow)) = 1

\* C6: a reference written with an alias name is classified exactly as the
\* same reference written with the name the alias maps to.
C6_AliasTransparent ==
    pc = "additions" =>
        \A a \in DOMAIN type_aliases :
            /\ TypeRefClass(a) = TypeRefClass(type_aliases[a])
            /\ EnumRefClass("name" :> a) = EnumRefClass("name" :> type_aliases[a])
            /\ \A target \in active_enums :
                  EnumRefClass(("name" :> a) @@ ("extends" :> target))
                    = EnumRefClass(("name" :> type_aliases[a]) @@ ("extends" :> target))

\* C7: an extension named in completedExtensions or ignoredExtensions gets
\* no section in the Additions report.
C7_CompletedOrIgnoredNeverExpanded ==
    \A k \in DOMAIN root.extensions :
        LET ext_name == root.extensions[k].attrib["name"]
        IN  ext_name \in LedgerSet("extensions") \cup LedgerSet("fully-ignored")
              => \A a \in Additions : a.ext_name # ext_name

\* an ignored extension whose block names an active enum that is not
\* cherry-picked: a status line and no section, next to a printed section
C7_Witness ==
    /\ pc = "done"
    /\ "VK_EXT_filter_cubic" \in LedgerSet("fully-ignored")
    /\ \E k \in DOMAIN out : /\ out[k].section = "Completed extensions"
                              /\ <<"VK_EXT_filter_cubic", "Ignored">> \in Range(out[k].lines)
    /\ "VkFilter" \in Range(root.extensions[1].requires[1].types)
    /\ "VkFilter" \in active_enums \ LedgerSet("cherry-pick")
    /\ \E a \in Additions : a.ext_name = "VK_QCOM_filter_cubic_weights"

\* the number of <type> elements that the loop of lines 106-140 is through
ParsedTypes ==
    IF pc = "aliases" THEN 0
    ELSE IF pc = "types" \/ (pc = "crashed" /\ out = <<>> /\ error # RecursionError)
    THEN i - 1
    ELSE Len(root.types)

\* C8: a parsed structure has exactly one row in the pNext table when its
\* alias-resolved EXTENDS set names at least one pipeline root, the row
\* pairing its first member's discriminant with the structure, and no row
\* otherwise; the table is printed as built.
C8_OneRowPerChainedStructure ==
    /\ \A k \in 1..ParsedTypes :
          LET t == root.types[k]
              raw == IF Has(t.attrib, "structextends")
                     THEN t.attrib["structextends"] ELSE {}
              resolved == {IF x \in DOMAIN type_aliases THEN type_aliases[x] ELSE x :
                             x \in raw}
              rows == {j \in DOMAIN shallow_copy_pnext_size_lut :
                         shallow_copy_pnext_size_lut[j][2] = t.attrib["name"]}
          IN  (Has(t.attrib, "category") /\ t.attrib["category"] = "struct") =>
                IF resolved \cap top_level_types_pipeline # {}
                THEN /\ Cardinality(rows) = 1
                     /\ \A j \in rows :
                           shallow_copy_pnext_size_lut[j][1] = t.members[1].attrib["values"]
                ELSE rows = {}
    /\ \A k \in DOMAIN out :
          out[k].section = "pNext LUT" => out[k].lines = shallow_copy_pnext_size_lut

\* a structure chained onto two pipeline roots, one through an alias, with
\* its single row, and a structure chained onto no pipeline root
C8_Witness ==
    /\ pc = "completed"
    /\ "VkPipelineRenderingCreateInfo" \in Known
    /\ Range(struct_types["VkPipelineRenderingCreateInfo"].extends)
          = {"VkGraphicsPipelineCreateInfo", "VkComputePipelineCreateInfo"}
    /\ "VkPipelineCreationFeedbackCreateInfo" \in Known
    /\ struct_types["VkPipelineCreationFeedbackCreateInfo"].extends
          = <<"VkPipelineRenderingCreateInfo">>
    /\ shallow_copy_pnext_size_lut =
          << <<"VK_STRUCTURE_TYPE_PIPELINE_RENDERING_CREATE_INFO",
               "VkPipelineRenderingCreateInfo">> >>

\* C9: the structure-type, format and object-type enumerations are never
\* in ActiveEnums.
C9_UniversalEnumsNeverActive ==
    active_enums \cap {"VkStructureType", "VkFormat", "VkObjectType"} = {}

====
